---------------------------- MODULE Spec2Model ----------------------------
(***************************************************************************)
(* The orchestration core of the multi-agent financial analysis system:    *)
(* MultiAgentOrchestrator (process_request, the planner with its           *)
(* deterministic fallback, the executor, the aggregator and the            *)
(* clarification round trip) and the four workers it drives.               *)
(*                                                                         *)
(* Python values whose type varies at run time are tagged records          *)
(* [type |-> ...]; a str is the sequence of its characters, so that        *)
(* lower(), the substring test `in` and split() are computed as Python     *)
(* computes them.  A dict is a function from its keys.                     *)
(***************************************************************************)
EXTENDS Integers, Sequences, FiniteSets, TLC

---------------------------------------------------------------------------
(* Python values *)

PyNone == [type |-> "NoneType"]

PyStr(chars) == [type |-> "str", chars |-> chars]

PyBool(b) == [type |-> "bool", value |-> b]

PyInt(n) == [type |-> "int", value |-> n]

PyList(items) == [type |-> "list", items |-> items]

PyDict(items) == [type |-> "dict", items |-> items]

\* {} : the dict with no key
EmptyDict == [k \in {} |-> PyNone]

\* bool(v), the truth value Python's `if v`, `not v` and `v or w` use
Truthy(v) ==
  CASE v.type = "NoneType" -> FALSE
    [] v.type = "bool" -> v.value
    [] v.type = "int" -> v.value # 0
    [] v.type = "str" -> Len(v.chars) > 0
    [] v.type = "list" -> Len(v.items) > 0
    [] v.type = "dict" -> DOMAIN v.items # {}
    [] OTHER -> TRUE

\* d.get(key, default)
Get(d, key, default) == IF key \in DOMAIN d THEN d[key] ELSE default

\* d.update(e): the entries of e win
Update(d, e) == [k \in DOMAIN d \cup DOMAIN e |-> IF k \in DOMAIN e THEN e[k] ELSE d[k]]

Range(s) == {s[i] : i \in DOMAIN s}

---------------------------------------------------------------------------
(* str operations *)

UpperCase ==
  <<"A","B","C","D","E","F","G","H","I","J","K","L","M",
    "N","O","P","Q","R","S","T","U","V","W","X","Y","Z">>

LowerCase ==
  <<"a","b","c","d","e","f","g","h","i","j","k","l","m",
    "n","o","p","q","r","s","t","u","v","w","x","y","z">>

\* str.lower() on one character
LowerOf ==
  [c \in Range(UpperCase) |->
     LowerCase[CHOOSE i \in DOMAIN UpperCase : UpperCase[i] = c]]

lower_char(c) == IF c \in DOMAIN LowerOf THEN LowerOf[c] ELSE c

\* s.lower()
lower(s) == [i \in DOMAIN s |-> lower_char(s[i])]

\* needle in hay, for two strs
Contains(needle, hay) ==
  \E start \in 0..(Len(hay) - Len(needle)) :
    \A j \in 1..Len(needle) : hay[start + j] = needle[j]

Whitespace == {" ", "\t", "\n"}

\* len(s.split()): the number of maximal runs of non-whitespace characters
split_len(s) ==
  Cardinality({i \in DOMAIN s :
                 /\ s[i] \notin Whitespace
                 /\ (i = 1 \/ s[i - 1] \in Whitespace)})

---------------------------------------------------------------------------
(* The requests the model draws from *)

\* "help me"
TaskHelpMe ==
  <<"h","e","l","p"," ","m","e">>

\* "Analyze profit trends for the last 3 quarters"
TaskTrends ==
  <<"A","n","a","l","y","z","e"," ","p","r","o","f","i","t"," ","t","r","e","n","d","s"," ","f","o","r"," ","t","h","e"," ","l","a","s","t"," ","3"," ","q","u","a","r","t","e","r","s">>

\* "get data"
TaskGetData ==
  <<"g","e","t"," ","d","a","t","a">>

\* "Show me a chart of profit by segment"
TaskShowChart ==
  <<"S","h","o","w"," ","m","e"," ","a"," ","c","h","a","r","t"," ","o","f"," ","p","r","o","f","i","t"," ","b","y"," ","s","e","g","m","e","n","t">>

\* "Fetch data, analyze it, plot and report"
TaskAll ==
  <<"F","e","t","c","h"," ","d","a","t","a",","," ","a","n","a","l","y","z","e"," ","i","t",","," ","p","l","o","t"," ","a","n","d"," ","r","e","p","o","r","t">>

\* "profit for enterprise segment last year"
TaskPlain ==
  <<"p","r","o","f","i","t"," ","f","o","r"," ","e","n","t","e","r","p","r","i","s","e"," ","s","e","g","m","e","n","t"," ","l","a","s","t"," ","y","e","a","r">>

\* "Summarize the whole budget for us"
TaskBudget ==
  <<"S","u","m","m","a","r","i","z","e"," ","t","h","e"," ","w","h","o","l","e"," ","b","u","d","g","e","t"," ","f","o","r"," ","u","s">>

\* "plot  sales \ttrend"
TaskSpaced ==
  <<"p","l","o","t"," "," ","s","a","l","e","s"," ","\t","t","r","e","n","d">>

---------------------------------------------------------------------------
(* What a call does: return a value, or raise *)

Returned(v) == [outcome |-> "return", value |-> v]

Raised(class, message) ==
  [outcome |-> "raise", exc |-> [class |-> class, message |-> message]]

---------------------------------------------------------------------------
(* The deterministic fallback planner *)

AgentIds == {"data_fetcher", "analyzer", "visualizer", "summarizer"}

TaskPlan(task, agents_needed, execution_order, context, clarification_needed, clarification_questions) ==
  [task |-> task,
   agents_needed |-> agents_needed,
   execution_order |-> execution_order,
   context |-> context,
   clarification_needed |-> clarification_needed,
   clarification_questions |-> clarification_questions]

default_order == <<"data_fetcher", "analyzer", "visualizer", "summarizer">>

vague_phrases ==
  << <<"h","e","l","p"," ","m","e">>,
     <<"w","h","a","t"," ","s","h","o","u","l","d"," ","i"," ","d","o">>,
     <<"i"," ","n","e","e","d"," ","i","n","f","o","r","m","a","t","i","o","n">>,
     <<"c","a","n"," ","y","o","u"," ","h","e","l","p">>,
     <<"t","e","l","l"," ","m","e"," ","s","o","m","e","t","h","i","n","g">>,
     <<"w","h","a","t","'","s"," ","g","o","i","n","g"," ","o","n">>,
     <<"i"," ","w","a","n","t"," ","t","o"," ","k","n","o","w">>,
     <<"s","h","o","w"," ","m","e"," ","s","o","m","e","t","h","i","n","g">>,
     <<"g","i","v","e"," ","m","e"," ","d","a","t","a">>,
     <<"i"," ","n","e","e","d"," ","h","e","l","p">>,
     <<"a","n","a","l","y","z","e"," ","d","a","t","a">>,
     <<"s","h","o","w"," ","t","r","e","n","d","s">>,
     <<"c","o","m","p","a","r","e"," ","p","e","r","f","o","r","m","a","n","c","e">>,
     <<"s","h","o","w"," ","m","e">>,
     <<"g","i","v","e"," ","m","e">>,
     <<"t","e","l","l"," ","m","e">>,
     <<"w","h","a","t"," ","i","s">>,
     <<"h","o","w"," ","d","o">>,
     <<"c","a","n"," ","y","o","u">> >>

fallback_questions ==
  <<"What specific financial data would you like me to analyze?",
    "What time period are you interested in? (e.g., last quarter, last year)",
    "What type of analysis do you need? (e.g., trends, comparisons, summaries)",
    "Do you want charts, tables, or reports?">>

fetch_words ==
  { <<"f","e","t","c","h">>,
    <<"g","e","t">>,
    <<"d","a","t","a">>,
    <<"d","o","w","n","l","o","a","d">> }

analyze_words ==
  { <<"a","n","a","l","y","z","e">>,
    <<"a","n","a","l","y","s","i","s">>,
    <<"t","r","e","n","d">>,
    <<"c","a","l","c","u","l","a","t","e">> }

chart_words ==
  { <<"c","h","a","r","t">>,
    <<"g","r","a","p","h">>,
    <<"p","l","o","t">>,
    <<"v","i","s","u","a","l","i","z","e">> }

summary_words ==
  { <<"s","u","m","m","a","r","i","z","e">>,
    <<"s","u","m","m","a","r","y">>,
    <<"r","e","p","o","r","t">>,
    <<"c","o","n","c","l","u","s","i","o","n">> }

VagueWordLimit == 3

\* a planner that takes a task of exactly VagueWordLimit words as specific
is_vague_below_limit(task, task_lower) ==
  \/ \E p \in Range(vague_phrases) : Contains(p, task_lower)
  \/ split_len(task) < VagueWordLimit

\* any(phrase in task_lower for phrase in vague_phrases) or len(task.split()) <= 3
is_vague(task, task_lower) ==
  \/ \E p \in Range(vague_phrases) : Contains(p, task_lower)
  \/ split_len(task) <= VagueWordLimit

\* any(word in task_lower for word in words)
any_word(words, task_lower) == \E w \in words : Contains(w, task_lower)

\* the agents the four keyword tests append, in the order of the tests
keyword_agents(task_lower) ==
  (IF any_word(fetch_words, task_lower) THEN <<"data_fetcher">> ELSE <<>>)
  \o (IF any_word(analyze_words, task_lower) THEN <<"analyzer">> ELSE <<>>)
  \o (IF any_word(chart_words, task_lower) THEN <<"visualizer">> ELSE <<>>)
  \o (IF any_word(summary_words, task_lower) THEN <<"summarizer">> ELSE <<>>)

\* a planner without the default: the keyword tests alone
select_agents_no_default(task_lower) == keyword_agents(task_lower)

\* if not agents_needed: agents_needed = default_order
select_agents(task_lower) ==
  IF keyword_agents(task_lower) = <<>> THEN default_order
  ELSE keyword_agents(task_lower)

\* clarification_needed = not bool(context.get("clarification_answers"))
answers_missing(context) == ~Truthy(Get(context, "clarification_answers", PyNone))

\* _create_fallback_plan(task, context); task.lower() raises on a task that
\* is not a str
create_fallback_plan(task, context) ==
  IF task.type # "str"
    THEN Raised("AttributeError", "object has no attribute 'lower'")
  ELSE IF answers_missing(context) /\ is_vague(task.chars, lower(task.chars))
    THEN Returned(TaskPlan(task, PyList(<<>>), PyList(<<>>), context,
                           PyBool(TRUE), PyList(fallback_questions)))
  ELSE Returned(TaskPlan(task,
                         PyList(select_agents(lower(task.chars))),
                         PyList(select_agents(lower(task.chars))),
                         context, PyBool(FALSE), PyNone))

---------------------------------------------------------------------------
(* The data source: the rows of the Excel sheet the fetcher reads.  A Date
   is a month number (month 1 is the first month of the sheet); a quarter
   is three months. *)

\* the columns of the sheet whose figures no modelled computation reads
SalesColumns == {"Gross Sales", "Units Sold", "COGS"}

\* a row of the sheet; the profit stands in for its sales figures
Row(date, profit, segment, country, product) ==
  [Date |-> date, Profit |-> profit, Segment |-> segment,
   Country |-> country, Product |-> product]
  @@ [c \in SalesColumns |-> profit]

\* df.columns of pd.DataFrame(records): the keys of the records
columns(df) == IF df = <<>> THEN {} ELSE DOMAIN df[1]

Government == <<"G","o","v","e","r","n","m","e","n","t">>

Midmarket == <<"M","i","d","m","a","r","k","e","t">>

Canada == <<"C","a","n","a","d","a">>

France == <<"F","r","a","n","c","e">>

Paseo == <<"P","a","s","e","o">>

Montana == <<"M","o","n","t","a","n","a">>

\* not sorted by date, as the sheet is not
ExcelRows ==
  << Row(7, 30, Government, Canada, Paseo),
     Row(1, 10, Government, France, Montana),
     Row(13, 20, Midmarket, Canada, Paseo),
     Row(4, 5, Midmarket, France, Paseo),
     Row(10, 20, Government, Canada, Montana),
     Row(13, 5, Government, France, Paseo) >>

---------------------------------------------------------------------------
(* AgentResult and the workers' exceptions *)

AgentResult(agent_id, result_status, data, error, metadata) ==
  [agent_id |-> agent_id, status |-> result_status, data |-> data,
   error |-> error, metadata |-> metadata]

\* what a worker's try block did: the data it returns and the entries it
\* added to its private context, or the exception it raised
Done(data, added, metadata) ==
  [outcome |-> "return", data |-> data, added |-> added, metadata |-> metadata]

---------------------------------------------------------------------------
(* DataFetcherAgent *)

segments ==
  << <<"g","o","v","e","r","n","m","e","n","t">>,
     <<"m","i","d","m","a","r","k","e","t">>,
     <<"m","i","d","m","a","r","k","e","t","s">>,
     <<"c","h","a","n","n","e","l"," ","p","a","r","t","n","e","r","s">>,
     <<"e","n","t","e","r","p","r","i","s","e">>,
     <<"s","m","a","l","l"," ","b","u","s","i","n","e","s","s">> >>

countries ==
  << <<"c","a","n","a","d","a">>,
     <<"g","e","r","m","a","n","y">>,
     <<"f","r","a","n","c","e">>,
     <<"m","e","x","i","c","o">>,
     <<"u","s","a">>,
     <<"u","n","i","t","e","d"," ","s","t","a","t","e","s">> >>

products ==
  << <<"c","a","r","r","e","t","e","r","a">>,
     <<"m","o","n","t","a","n","a">>,
     <<"p","a","s","e","o">>,
     <<"v","e","n","t","e">>,
     <<"a","m","a","r","i","l","l","a">>,
     <<"t","o","u","r","i","n","g">> >>

UpperOf ==
  [c \in Range(LowerCase) |->
     UpperCase[CHOOSE i \in DOMAIN LowerCase : LowerCase[i] = c]]

upper_char(c) == IF c \in DOMAIN UpperOf THEN UpperOf[c] ELSE c

IsLetter(c) == c \in Range(LowerCase) \cup Range(UpperCase)

\* s.title()
title(s) ==
  [i \in DOMAIN s |->
     IF i = 1 \/ ~IsLetter(s[i - 1]) THEN upper_char(s[i]) ELSE lower_char(s[i])]

\* for word in words: if word in task_lower: ... break
first_in(words, task_lower) ==
  LET hits == {i \in DOMAIN words : Contains(words[i], task_lower)}
  IN  IF hits = {} THEN <<>>
      ELSE <<words[CHOOSE i \in hits : \A j \in hits : i <= j]>>

dimension_filter(key, words, task_lower) ==
  IF first_in(words, task_lower) = <<>> THEN EmptyDict
  ELSE key :> title(first_in(words, task_lower)[1])

time_filter(task_lower) ==
  IF ~Contains(<<"l","a","s","t">>, task_lower) THEN EmptyDict
  ELSE IF Contains(<<"3">>, task_lower) \/ Contains(<<"t","h","r","e","e">>, task_lower)
    THEN "quarters" :> 3
  ELSE IF Contains(<<"2">>, task_lower) \/ Contains(<<"t","w","o">>, task_lower)
    THEN "quarters" :> 2
  ELSE IF Contains(<<"1">>, task_lower) \/ Contains(<<"o","n","e">>, task_lower)
    THEN "quarters" :> 1
  ELSE IF Contains(<<"m","o","n","t","h">>, task_lower) THEN "months" :> 1
  ELSE IF Contains(<<"y","e","a","r">>, task_lower) THEN "years" :> 1
  ELSE EmptyDict

\* _extract_filters(task, context), given task.lower()
extract_filters(task_lower) ==
  dimension_filter("segment", segments, task_lower)
  @@ dimension_filter("country", countries, task_lower)
  @@ dimension_filter("product", products, task_lower)
  @@ time_filter(task_lower)

MonthsPerQuarter == 3

MonthsPerYear == 12

\* df[df[column].str.contains(value, case=False, na=False)]
str_contains(rows, column, value) ==
  SelectSeq(rows, LAMBDA r : Contains(lower(value), lower(r[column])))

MaxDate(rows) == CHOOSE d \in {rows[i].Date : i \in DOMAIN rows} :
                   \A i \in DOMAIN rows : rows[i].Date <= d

MinDate(rows) == CHOOSE d \in {rows[i].Date : i \in DOMAIN rows} :
                   \A i \in DOMAIN rows : d <= rows[i].Date

\* the rows dated from `months` months before the latest date on; no row
\* compares >= NaT, the latest date of no row
since(rows, months) ==
  IF rows = <<>> THEN <<>>
  ELSE SelectSeq(rows, LAMBDA r : r.Date >= MaxDate(rows) - months)

\* _apply_filters(df, filters)
apply_filters(df, filters) ==
  LET by_segment == IF "segment" \in DOMAIN filters
                      THEN str_contains(df, "Segment", filters["segment"]) ELSE df
      by_country == IF "country" \in DOMAIN filters
                      THEN str_contains(by_segment, "Country", filters["country"])
                      ELSE by_segment
      by_product == IF "product" \in DOMAIN filters
                      THEN str_contains(by_country, "Product", filters["product"])
                      ELSE by_country
  IN  IF "quarters" \in DOMAIN filters
        THEN since(by_product, filters["quarters"] * MonthsPerQuarter)
      ELSE IF "months" \in DOMAIN filters
        THEN since(by_product, filters["months"])
      ELSE IF "years" \in DOMAIN filters
        THEN since(by_product, filters["years"] * MonthsPerYear)
      ELSE by_product

RECURSIVE insert_by_date(_, _)
insert_by_date(row, sorted) ==
  IF sorted = <<>> THEN <<row>>
  ELSE IF row.Date < Head(sorted).Date THEN <<row>> \o sorted
  ELSE <<Head(sorted)>> \o insert_by_date(row, Tail(sorted))

\* df.sort_values('Date'): ascending, rows of one date keeping their order
RECURSIVE sort_values(_)
sort_values(rows) ==
  IF rows = <<>> THEN <<>>
  ELSE insert_by_date(rows[Len(rows)], sort_values(SubSeq(rows, 1, Len(rows) - 1)))

RECURSIVE sum_profit(_)
sum_profit(rows) ==
  IF rows = <<>> THEN 0 ELSE Head(rows).Profit + sum_profit(Tail(rows))

\* df[column].value_counts().to_dict()
value_counts(rows, column) ==
  [v \in {rows[i][column] : i \in DOMAIN rows} |->
     Cardinality({i \in DOMAIN rows : rows[i][column] = v})]

\* _calculate_summary_stats(df); the minimum date of no row is NaT, and
\* NaT.strftime raises ValueError
calculate_summary_stats(df) ==
  IF df = <<>> THEN Raised("ValueError", "NaTType does not support strftime")
  ELSE Returned([total_profit |-> sum_profit(df),
                 date_range |-> [start |-> MinDate(df), end |-> MaxDate(df)],
                 segment_breakdown |-> value_counts(df, "Segment"),
                 country_breakdown |-> value_counts(df, "Country")])

\* _get_date_range(df)
get_date_range(df) ==
  IF df # <<>> THEN [start |-> MinDate(df), end |-> MaxDate(df)]
  ELSE [start |-> "N/A", end |-> "N/A"]

\* the try block of DataFetcherAgent.execute after update_status(WORKING);
\* excel_exists is os.path.exists(self.excel_file)
data_fetcher_try(task, excel_exists) ==
  IF ~excel_exists THEN Raised("FileNotFoundError", "Excel file not found")
  ELSE IF task.type # "str"
    THEN Raised("AttributeError", "object has no attribute 'lower'")
  ELSE
    LET filters == extract_filters(lower(task.chars))
        filtered_df == sort_values(apply_filters(ExcelRows, filters))
        stats == calculate_summary_stats(filtered_df)
        result_data == PyDict([raw_data |-> filtered_df,
                               summary_stats |-> stats.value,
                               filters_applied |-> filters,
                               data_points |-> Len(filtered_df),
                               date_range |-> get_date_range(filtered_df)])
    IN  IF stats.outcome = "raise" THEN stats
        ELSE Done(result_data,
                  ("financial_data" :> result_data)
                  @@ ("dataframe" :> [type |-> "DataFrame", rows |-> filtered_df]),
                  PyDict("data_points" :> Len(filtered_df)))

---------------------------------------------------------------------------
(* AnalyzerAgent.  Of the metrics only those computed from the Profit and
   Date columns are modelled; the others are further numeric entries of the
   same dict. *)

\* financial_data = self.get_from_context("financial_data")
\* if not financial_data and context: financial_data = context.get(...)
lookup(own_context, context, key) ==
  IF ~Truthy(Get(own_context, "financial_data", PyNone)) /\ DOMAIN context # {}
    THEN Get(context, key, PyNone)
  ELSE Get(own_context, key, PyNone)

Dates(rows) == {rows[i].Date : i \in DOMAIN rows}

\* df.groupby('Date')['Profit'].sum() at one date
profit_on(rows, date) == sum_profit(SelectSeq(rows, LAMBDA r : r.Date = date))

Abs(n) == IF n < 0 THEN -n ELSE n

\* 100 * change / base in hundredths, rounded to the nearest
percent_x100(change, base) ==
  LET q == (2 * 10000 * Abs(change) + base) \div (2 * base)
  IN  IF change < 0 THEN -q ELSE q

\* a trend that is stable when the last profit equals the first
analyze_trends_level_stable(df) ==
  LET first == profit_on(df, MinDate(df))
      last == profit_on(df, MaxDate(df))
      periods == Cardinality(Dates(df))
  IN  [trend_direction |->
         IF periods >= 2 /\ last > first THEN "upward"
         ELSE IF periods >= 2 /\ last < first THEN "downward"
         ELSE "stable",
       profit_change_percent |->
         IF periods >= 2 /\ first # 0 THEN percent_x100(last - first, Abs(first))
         ELSE 0,
       total_profit |-> sum_profit(df)]

\* _analyze_trends(df) on rows sorted by date
analyze_trends(df) ==
  LET first == profit_on(df, MinDate(df))
      last == profit_on(df, MaxDate(df))
      periods == Cardinality(Dates(df))
  IN  [trend_direction |->
         IF periods >= 2 THEN (IF last > first THEN "upward" ELSE "downward")
         ELSE "stable",
       profit_change_percent |->
         IF periods >= 2 /\ first # 0 THEN percent_x100(last - first, Abs(first))
         ELSE 0,
       total_profit |-> sum_profit(df)]

Quarter(date) == (date - 1) \div MonthsPerQuarter

MinQuarterlyPeriods == 2

\* _analyze_quarters(df): resample('Q') yields every quarter from the first
\* date's to the last date's; agg over a column the frame does not have
\* raises KeyError
analyze_quarters(df) ==
  LET quarters == Quarter(MinDate(df))..Quarter(MaxDate(df))
  IN  IF ~({"Date", "Profit"} \subseteq columns(df)) THEN Returned(EmptyDict)
      ELSE IF ~(SalesColumns \subseteq columns(df))
        THEN Raised("KeyError", "Column(s) do not exist")
      ELSE IF Cardinality(quarters) < MinQuarterlyPeriods
        THEN Returned([quarterly_analysis |->
                         "Insufficient data for quarterly analysis"])
      ELSE Returned([quarterly_profit |->
                       [q \in quarters |->
                          sum_profit(SelectSeq(df, LAMBDA r : Quarter(r.Date) = q))]])

RECURSIVE max_profit(_)
max_profit(rows) ==
  IF Len(rows) = 1 THEN rows[1].Profit
  ELSE IF Head(rows).Profit >= max_profit(Tail(rows)) THEN Head(rows).Profit
  ELSE max_profit(Tail(rows))

RECURSIVE min_profit(_)
min_profit(rows) ==
  IF Len(rows) = 1 THEN rows[1].Profit
  ELSE IF Head(rows).Profit <= min_profit(Tail(rows)) THEN Head(rows).Profit
  ELSE min_profit(Tail(rows))

\* _calculate_basic_metrics(df)
calculate_basic_metrics(df) ==
  [total_profit |-> sum_profit(df), max_profit |-> max_profit(df),
   min_profit |-> min_profit(df)]

\* if "quarter" in task.lower(): self._analyze_quarters(df)
quarters_of(task_lower, df) ==
  IF Contains(<<"q","u","a","r","t","e","r">>, task_lower)
    THEN analyze_quarters(df) ELSE Returned(EmptyDict)

\* analysis_results.update(...) for each keyword of the task, in code order
analysis_of(task_lower, df) ==
  Update(Update(IF Contains(<<"t","r","e","n","d">>, task_lower)
                  THEN analyze_trends(df) ELSE EmptyDict,
                quarters_of(task_lower, df).value),
         calculate_basic_metrics(df))

\* an analyzer that goes on without data, to an empty analysis
analyzer_try_unchecked(task, context, own_context) ==
  Done(PyDict(EmptyDict), "analysis_results" :> PyDict(EmptyDict),
       PyDict("metrics_calculated" :> 0))

\* the try block of AnalyzerAgent.execute after update_status(WORKING)
analyzer_try(task, context, own_context) ==
  LET financial_data == lookup(own_context, context, "financial_data")
  IN  IF ~Truthy(financial_data)
        THEN Raised("ValueError", "No financial data available for analysis")
      ELSE IF financial_data.items.raw_data = <<>>
        THEN Raised("ValueError", "No data available for analysis")
      ELSE IF task.type # "str"
        THEN Raised("AttributeError", "object has no attribute 'lower'")
      ELSE IF quarters_of(lower(task.chars),
                          sort_values(financial_data.items.raw_data)).outcome = "raise"
        THEN quarters_of(lower(task.chars),
                         sort_values(financial_data.items.raw_data))
      ELSE
        LET analysis_results ==
              PyDict(analysis_of(lower(task.chars),
                                 sort_values(financial_data.items.raw_data)))
        IN  Done(analysis_results,
                 "analysis_results" :> analysis_results,
                 PyDict("metrics_calculated" :>
                          Cardinality(DOMAIN analysis_results.items)))

---------------------------------------------------------------------------
(* VisualizerAgent.  A chart is named by its key; its rendering is opaque.
   execute makes Date the index of the frame, so no chart function finds a
   Date column: the quarterly chart is never drawn. *)

chart(title_) == [type |-> "plotly", title |-> title_]

charts_of(task_lower) ==
  (IF Contains(<<"c","h","a","r","t">>, task_lower) \/ Contains(<<"p","l","o","t">>, task_lower)
     THEN "profit_chart" :> chart("Profit Trend Chart") ELSE EmptyDict)
  @@ (IF Contains(<<"t","r","e","n","d">>, task_lower)
        THEN "trend_chart" :> chart("Profit Trend Analysis") ELSE EmptyDict)

\* if not visualizations: the basic chart
visualizations_of(task_lower) ==
  IF DOMAIN charts_of(task_lower) = {}
    THEN "profit_chart" :> chart("Profit Trend Chart")
  ELSE charts_of(task_lower)

\* the try block of VisualizerAgent.execute after update_status(WORKING)
visualizer_try(task, context, own_context) ==
  LET financial_data == lookup(own_context, context, "financial_data")
  IN  IF ~Truthy(financial_data)
        THEN Raised("ValueError", "No financial data available for visualization")
      ELSE IF financial_data.items.raw_data = <<>>
        THEN Raised("ValueError", "No data available for visualization")
      ELSE IF task.type # "str"
        THEN Raised("AttributeError", "object has no attribute 'lower'")
      ELSE
        LET visualizations == PyDict(visualizations_of(lower(task.chars)))
        IN  Done(visualizations,
                 "visualizations" :> visualizations,
                 PyDict("charts_created" :>
                          Cardinality(DOMAIN visualizations.items)))

---------------------------------------------------------------------------
(* SummarizerAgent.  The reasoning service raises, or answers with a text,
   or answers with no content. *)

SummaryResponses ==
  {Raised("APIError", "reasoning service unavailable"),
   Returned(PyStr(<<"summary written by the reasoning service">>)),
   Returned(PyNone)}

\* with the answer that is the empty text
AllSummaryResponses == SummaryResponses \cup {Returned(PyStr(<<>>))}

\* _prepare_summary_data(financial_data, analysis_results, visualizations)
prepare_summary_data(financial_data, analysis_results, visualizations) ==
  [data_points |-> Get(financial_data.items, "data_points", 0),
   analysis |-> IF Truthy(analysis_results)
                  THEN DOMAIN analysis_results.items ELSE {},
   visualizations |-> IF Truthy(visualizations)
                        THEN DOMAIN visualizations.items ELSE {}]

\* _create_fallback_summary(data): the template filled from the digest
create_fallback_summary(data) ==
  PyStr(<<"Financial Analysis Summary", data>>)

\* _generate_summary(task, data): the service's answer, the template when
\* the call raises
generate_summary(data, response) ==
  IF response.outcome = "raise" THEN create_fallback_summary(data)
  ELSE response.value

\* the try block of SummarizerAgent.execute after update_status(WORKING), up
\* to update_status(COMPLETED)
summarizer_try(context, own_context, response) ==
  LET financial_data == lookup(own_context, context, "financial_data")
      analysis_results == lookup(own_context, context, "analysis_results")
      visualizations == lookup(own_context, context, "visualizations")
  IN  IF ~Truthy(financial_data)
        THEN Raised("ValueError", "No financial data available for summarization")
      ELSE
        LET summary ==
              generate_summary(prepare_summary_data(financial_data,
                                                    analysis_results,
                                                    visualizations),
                               response)
        IN  Done(summary, "summary" :> summary, PyNone)

---------------------------------------------------------------------------
(* The planner: the reasoning service's answer, parsed, with the
   deterministic planner behind every failure *)

\* the text of an answer: an optional code fence around a JSON document
ResponseText(fence, closed, document) ==
  [type |-> "str", fence |-> fence, closed |-> closed, document |-> document]

InvalidJson == [kind |-> "invalid"]

JsonArray == [kind |-> "array"]

JsonObject(members) == [kind |-> "object", members |-> members]

\* response_clean[7:-3] and response_clean[3:-3] cut the last three
\* characters whether or not they are the closing fence
strip_fence(response) ==
  IF response.fence = "none" \/ response.closed THEN response.document
  ELSE InvalidJson

\* _parse_planning_response(task, response, context)
parse_planning_response(task, response, context_) ==
  IF response.type # "str"
    THEN Raised("AttributeError", "object has no attribute 'strip'")
  ELSE IF strip_fence(response).kind = "invalid"
    THEN create_fallback_plan(task, context_)
  ELSE IF strip_fence(response).kind # "object"
    THEN Raised("AttributeError", "object has no attribute 'get'")
  ELSE
    LET plan_data == strip_fence(response).members
    IN  Returned(TaskPlan(task,
                          Get(plan_data, "agents_needed", PyList(<<>>)),
                          Get(plan_data, "execution_order", PyList(<<>>)),
                          context_,
                          Get(plan_data, "clarification_needed", PyBool(FALSE)),
                          Get(plan_data, "clarification_questions", PyList(<<>>))))

\* _plan_task without its own except clause
plan_task_unguarded(task, context_, llm) ==
  IF llm.outcome = "raise" THEN llm
  ELSE parse_planning_response(task, llm.value, context_)

\* _plan_task(task, context), given what _call_llm_for_planning did
plan_task(task, context_, llm) ==
  IF llm.outcome = "raise" THEN create_fallback_plan(task, context_)
  ELSE IF parse_planning_response(task, llm.value, context_).outcome = "raise"
    THEN create_fallback_plan(task, context_)
  ELSE parse_planning_response(task, llm.value, context_)

\* whether the plan is the one the reasoning service wrote
llm_planned(llm) ==
  /\ llm.outcome = "return"
  /\ llm.value.type = "str"
  /\ strip_fence(llm.value).kind = "object"

---------------------------------------------------------------------------
(* The executor and the aggregator *)

\* for agent_id in execution_order: the items of a list; an int or None is
\* not iterable
iteration(execution_order) ==
  IF execution_order.type = "list" THEN Returned(execution_order.items)
  ELSE Raised("TypeError", "object is not iterable")

\* results kept as a list, one entry for each execution
set_result_appended(results, result) == Append(results, result)

\* execution_results[agent_id] = result, on a dict that keeps the order in
\* which its keys were first set
set_result(results, result) ==
  IF \E i \in DOMAIN results : results[i].agent_id = result.agent_id
    THEN [i \in DOMAIN results |->
            IF results[i].agent_id = result.agent_id THEN result ELSE results[i]]
  ELSE Append(results, result)

keys(results) == [i \in DOMAIN results |-> results[i].agent_id]

\* a filter that lets every result through
with_status_all(results, result_status) == results

with_status(results, result_status) ==
  SelectSeq(results, LAMBDA r : r.status = result_status)

\* an aggregator that takes the data of a successful agent whatever it is
extract_any_data(successful_results, agent_id, default) ==
  IF \E i \in DOMAIN successful_results :
       successful_results[i].agent_id = agent_id
    THEN successful_results[CHOOSE i \in DOMAIN successful_results :
                              successful_results[i].agent_id = agent_id].data
  ELSE default

\* successful_results[agent_id].data when the agent is there with data
\* that is true, else the default
extract(successful_results, agent_id, default) ==
  IF \E i \in DOMAIN successful_results :
       /\ successful_results[i].agent_id = agent_id
       /\ Truthy(successful_results[i].data)
    THEN successful_results[CHOOSE i \in DOMAIN successful_results :
                              successful_results[i].agent_id = agent_id].data
  ELSE default

\* _aggregate_results(execution_results, task_plan)
aggregate_results(results, plan) ==
  LET successful_results == with_status(results, "completed")
      failed_results == with_status(results, "error")
  IN  [status |-> "completed",
       task |-> plan.task,
       summary |-> extract(successful_results, "summarizer", PyNone),
       analysis |-> extract(successful_results, "analyzer", PyDict(EmptyDict)),
       visualizations |-> extract(successful_results, "visualizer", PyDict(EmptyDict)),
       financial_data |-> extract(successful_results, "data_fetcher", PyDict(EmptyDict)),
       successful_agents |-> keys(successful_results),
       failed_agents |-> keys(failed_results),
       agent_status |-> [id \in Range(keys(results)) |->
                           results[CHOOSE i \in DOMAIN results :
                                     results[i].agent_id = id].status],
       metadata |-> [total_agents |-> Len(results),
                     successful_agents |-> Len(successful_results),
                     failed_agents |-> Len(failed_results)]]

---------------------------------------------------------------------------
(* The inputs the model draws from *)

\* every task of the model, for the planner
AllTasks ==
  {PyStr(TaskHelpMe), PyStr(TaskTrends), PyStr(TaskGetData),
   PyStr(TaskShowChart), PyStr(TaskAll), PyStr(TaskPlain),
   PyStr(TaskBudget), PyStr(TaskSpaced), PyNone}

\* the tasks an orchestrator is asked in sequence
Tasks == {PyStr(TaskHelpMe), PyStr(TaskTrends), PyStr(TaskAll), PyNone}

QuestionKeys == <<"question_1", "question_2", "question_3", "question_4">>

\* the answers a caller echoes back for the first n questions
answers_for(n) == [k \in {QuestionKeys[i] : i \in 1..n} |-> PyStr(<<"o","k">>)]

ClarificationAnswers == {answers_for(0), answers_for(1), answers_for(4)}

\* a row set a caller hands over in the context of its request
CallerData == PyDict([raw_data |-> <<Row(2, 7, Government, Canada, Paseo)>>,
                      data_points |-> 1])

\* every context of the model, for the planner
AllContexts ==
  {PyNone,
   PyDict(EmptyDict),
   PyDict("financial_data" :> CallerData),
   PyDict("clarification_answers" :> PyNone),
   PyDict("clarification_answers" :> PyDict(answers_for(0))),
   PyDict("clarification_answers" :> PyDict(answers_for(1))),
   PyDict("clarification_answers" :> PyDict(answers_for(4))),
   PyDict(("financial_data" :> CallerData)
          @@ ("clarification_answers" :> PyDict(answers_for(4))))}

\* the contexts a caller hands to process_request
CallerContexts == {PyNone, PyDict("financial_data" :> CallerData)}

\* JSON objects the reasoning service may answer the planning prompt with
PlanObjects ==
  {[agents_needed |-> PyList(default_order),
    execution_order |-> PyList(default_order),
    clarification_needed |-> PyBool(FALSE),
    clarification_questions |-> PyList(<<>>)],
   [agents_needed |-> PyList(<<"data_fetcher", "analyzer", "visualizer">>),
    execution_order |-> PyList(<<"analyzer", "data_fetcher", "analyzer">>),
    clarification_needed |-> PyBool(FALSE)],
   [agents_needed |-> PyList(<<"data_fetcher", "summarizer">>),
    execution_order |-> PyList(<<"data_fetcher", "forecaster", "summarizer">>)],
   [agents_needed |-> PyList(<<>>),
    execution_order |-> PyList(<<>>),
    clarification_needed |-> PyBool(TRUE),
    clarification_questions |-> PyList(<<"What time period are you interested in?">>)],
   [execution_order |-> PyList(<<"data_fetcher">>),
    clarification_needed |-> PyBool(TRUE)],
   [agents_needed |-> PyList(<<"analyzer">>),
    execution_order |-> PyInt(1)],
   EmptyDict}

\* what _call_llm_for_planning does: raise, or return the message content
PlanResponses ==
  {Raised("APIError", "reasoning service unavailable"),
   Returned(PyNone),
   Returned(ResponseText("none", FALSE, InvalidJson)),
   Returned(ResponseText("none", FALSE, JsonArray)),
   Returned(ResponseText("json", TRUE, InvalidJson)),
   Returned(ResponseText("plain", TRUE, JsonArray))}
  \cup {Returned(ResponseText("json", FALSE, JsonObject(o))) : o \in PlanObjects}
  \cup {Returned(ResponseText(f, TRUE, JsonObject(o))) :
          f \in {"none", "json", "plain"}, o \in PlanObjects}

\* the calls one orchestrator is given
MaxRequests == 2

---------------------------------------------------------------------------
(* MultiAgentOrchestrator *)

VARIABLES
  status,             \* self.status
  current_task,       \* self.current_task
  agents,             \* self.agents: each agent's status and private context
  pc,                 \* where process_request stands; "idle" between calls
  user_request,       \* process_request's arguments and locals,
  context,            \*   NoFrame between calls
  task_plan,
  execution_results,  \* _execute_plan's locals
  shared_context,
  position,           \* the index of the loop over execution_order
  trying,             \* what the running agent's try block did
  returned,           \* the caller's last call and what it gave the caller
  raised,             \* the exception that left the try block of that call
  requests,           \* process_request calls so far
  planned_by,         \* which planner wrote task_plan
  clarification,      \* the last clarification: what was asked, what was answered
  written,            \* the entries the agents added to their contexts in this request
  executed            \* the results execute has returned in this request, in order

vars ==
  <<status, current_task, agents, pc, user_request, context, task_plan,
    execution_results, shared_context, position, trying, returned, raised,
    requests, planned_by, clarification, written,
    executed>>

frame == <<user_request, context, task_plan, execution_results,
           shared_context, position, trying>>

NoFrame == [type |-> "no frame"]

NoException == [class |-> "none", message |-> ""]

\* the values of `returned`
Running(call) == [call |-> call, outcome |-> "running"]

Gave(call, value) == [call |-> call, outcome |-> "return", value |-> value]

Escaped(call, exc) == [call |-> call, outcome |-> "raise", exc |-> exc]

NoClarification ==
  [state |-> "none", task |-> PyNone, context |-> PyNone,
   questions |-> PyNone, answers |-> EmptyDict]

Init ==
  /\ status = "pending"
  /\ current_task = PyNone
  /\ agents = [id \in AgentIds |-> [status |-> "idle", context |-> EmptyDict]]
  /\ pc = "idle"
  /\ user_request = NoFrame
  /\ context = NoFrame
  /\ task_plan = NoFrame
  /\ execution_results = NoFrame
  /\ shared_context = NoFrame
  /\ position = 0
  /\ trying = NoFrame
  /\ returned = Running("none")
  /\ raised = NoException
  /\ requests = 0
  /\ planned_by = "nobody"
  /\ clarification = NoClarification
  /\ written = EmptyDict
  /\ executed = <<>>

\* the frame of process_request is gone when it returns
drop_frame ==
  /\ pc' = "idle"
  /\ user_request' = NoFrame
  /\ context' = NoFrame
  /\ task_plan' = NoFrame
  /\ execution_results' = NoFrame
  /\ shared_context' = NoFrame
  /\ position' = 0
  /\ trying' = NoFrame

\* a handler for the planner's parse errors only
catches_parse_errors(exc) == exc.class \in {"JSONDecodeError", "KeyError"}

\* the classes `except Exception` catches: every exception the code raises
catches(exc) ==
  exc.class \in {"AttributeError", "TypeError", "ValueError", "KeyError",
                 "FileNotFoundError", "APIError", "JSONDecodeError"}

\* process_request's except clause: the error envelope, or the exception
\* going on to the caller
except_clause(exc) ==
  /\ IF catches(exc)
       THEN /\ status' = "error"
            /\ returned' = Gave("process_request",
                                [status |-> "error", error |-> exc.message,
                                 task |-> user_request])
       ELSE /\ status' = status
            /\ returned' = Escaped("process_request", exc)
  /\ raised' = exc
  /\ drop_frame

\* process_request entered without self.status = TaskStatus.PLANNING
enter_keeps_status(task, context_) ==
  /\ status' = status
  /\ current_task' = task
  /\ pc' = "plan"
  /\ user_request' = task
  /\ context' = context_
  /\ returned' = Running("process_request")
  /\ raised' = NoException
  /\ requests' = requests + 1
  /\ planned_by' = "nobody"
  /\ written' = EmptyDict
  /\ executed' = <<>>
  /\ UNCHANGED <<agents, task_plan, execution_results, shared_context,
                 position, trying>>

\* process_request, entered: the first two statements of its try block
enter(task, context_) ==
  /\ status' = "planning"
  /\ current_task' = task
  /\ pc' = "plan"
  /\ user_request' = task
  /\ context' = context_
  /\ returned' = Running("process_request")
  /\ raised' = NoException
  /\ requests' = requests + 1
  /\ planned_by' = "nobody"
  /\ written' = EmptyDict
  /\ executed' = <<>>
  /\ UNCHANGED <<agents, task_plan, execution_results, shared_context,
                 position, trying>>

process_request(task, context_) ==
  /\ pc = "idle"
  /\ requests < MaxRequests
  /\ enter(task, context_)
  /\ clarification' = NoClarification

\* task_plan = await self._plan_task(user_request, context or {})
planning(llm) ==
  /\ pc = "plan"
  /\ LET context_or == IF Truthy(context) THEN context.items ELSE EmptyDict
         planned == plan_task(user_request, context_or, llm)
     IN  IF planned.outcome = "raise"
           THEN /\ except_clause(planned.exc)
                /\ planned_by' = "nobody"
           ELSE /\ task_plan' = planned.value
                /\ planned_by' = IF llm_planned(llm) THEN "llm" ELSE "fallback"
                /\ pc' = "planned"
                /\ UNCHANGED <<status, returned, raised, user_request, context,
                               execution_results, shared_context, position,
                               trying>>
  /\ UNCHANGED <<current_task, agents, requests, written, executed, clarification>>

\* the clarification envelope returned without
\* self.status = TaskStatus.WAITING_FOR_CLARIFICATION
ask_clarification_unmarked ==
  /\ pc = "planned"
  /\ Truthy(task_plan.clarification_needed)
  /\ status' = status
  /\ returned' = Gave("process_request",
                      [status |-> "clarification_needed",
                       questions |-> task_plan.clarification_questions,
                       task |-> user_request])
  /\ clarification' = [state |-> "asked", task |-> user_request,
                       context |-> context,
                       questions |-> task_plan.clarification_questions,
                       answers |-> EmptyDict]
  /\ drop_frame
  /\ UNCHANGED <<current_task, agents, raised, requests, written, executed, planned_by>>

\* a clarification envelope returned after the workers were set back
ask_clarification_after_reset ==
  /\ pc = "planned"
  /\ Truthy(task_plan.clarification_needed)
  /\ status' = "waiting_for_clarification"
  /\ returned' = Gave("process_request",
                      [status |-> "clarification_needed",
                       questions |-> task_plan.clarification_questions,
                       task |-> user_request])
  /\ clarification' = [state |-> "asked", task |-> user_request,
                       context |-> context,
                       questions |-> task_plan.clarification_questions,
                       answers |-> EmptyDict]
  /\ drop_frame
  /\ agents' = [id \in AgentIds |-> [status |-> "idle", context |-> EmptyDict]]
  /\ UNCHANGED <<current_task, raised, requests, written, executed, planned_by>>

\* if task_plan.clarification_needed: ... return
ask_clarification ==
  /\ pc = "planned"
  /\ Truthy(task_plan.clarification_needed)
  /\ status' = "waiting_for_clarification"
  /\ returned' = Gave("process_request",
                      [status |-> "clarification_needed",
                       questions |-> task_plan.clarification_questions,
                       task |-> user_request])
  /\ clarification' = [state |-> "asked", task |-> user_request,
                       context |-> context,
                       questions |-> task_plan.clarification_questions,
                       answers |-> EmptyDict]
  /\ drop_frame
  /\ UNCHANGED <<current_task, agents, raised, requests, written, executed, planned_by>>

\* self.status = TaskStatus.EXECUTING, and _execute_plan up to its loop
start_execution ==
  /\ pc = "planned"
  /\ ~Truthy(task_plan.clarification_needed)
  /\ status' = "executing"
  /\ execution_results' = <<>>
  /\ shared_context' = task_plan.context
  /\ position' = 1
  /\ pc' = "execute"
  /\ UNCHANGED <<current_task, agents, user_request, context, task_plan,
                 trying, returned, raised, requests, written, executed, planned_by, clarification>>

\* for agent_id in task_plan.execution_order, on what cannot be iterated
not_iterable ==
  /\ pc = "execute"
  /\ iteration(task_plan.execution_order).outcome = "raise"
  /\ except_clause(iteration(task_plan.execution_order).exc)
  /\ UNCHANGED <<current_task, agents, requests, written, executed, planned_by, clarification>>

order == iteration(task_plan.execution_order).value

\* an executor that reports an id it does not know as a failed agent
skip_agent_as_failure ==
  /\ pc = "execute"
  /\ iteration(task_plan.execution_order).outcome = "return"
  /\ position <= Len(order)
  /\ order[position] \notin DOMAIN agents
  /\ execution_results' =
       Append(execution_results,
              [agent_id |-> order[position], status |-> "error", data |-> PyNone,
               error |-> PyStr(<<"agent not found">>), metadata |-> PyNone])
  /\ position' = position + 1
  /\ UNCHANGED <<status, current_task, agents, pc, user_request, context,
                 task_plan, shared_context, trying, returned, raised, requests,
                 written, executed, planned_by, clarification>>

\* if agent_id not in self.agents: ... continue
skip_agent ==
  /\ pc = "execute"
  /\ iteration(task_plan.execution_order).outcome = "return"
  /\ position <= Len(order)
  /\ order[position] \notin DOMAIN agents
  /\ position' = position + 1
  /\ UNCHANGED <<status, current_task, agents, pc, user_request, context,
                 task_plan, execution_results, shared_context, trying,
                 returned, raised, requests, written, executed, planned_by, clarification>>

running_agent == order[position]

\* agent.execute entered: self.update_status(AgentStatus.WORKING)
enter_agent ==
  /\ pc = "execute"
  /\ iteration(task_plan.execution_order).outcome = "return"
  /\ position <= Len(order)
  /\ running_agent \in DOMAIN agents
  /\ agents' = [agents EXCEPT ![running_agent].status = "working"]
  /\ pc' = "agent_try"
  /\ UNCHANGED <<status, current_task, user_request, context, task_plan,
                 execution_results, shared_context, position, trying,
                 returned, raised, requests, written, executed, planned_by, clarification>>

\* the agent's try block, by agent
try_block(agent_id, task, context_, own_context, excel_exists, response) ==
  CASE agent_id = "data_fetcher" -> data_fetcher_try(task, excel_exists)
    [] agent_id = "analyzer" -> analyzer_try(task, context_, own_context)
    [] agent_id = "visualizer" -> visualizer_try(task, context_, own_context)
    [] agent_id = "summarizer" -> summarizer_try(context_, own_context, response)

\* an except clause that hands back what the agent had computed
error_result_with_data(agent_id, exc) ==
  [agent_id |-> agent_id, status |-> "error", data |-> PyDict(EmptyDict),
   error |-> PyStr(<<exc.message>>), metadata |-> PyNone]

\* an agent's except clause: update_status(ERROR) and the Error result
error_result(agent_id, exc) ==
  AgentResult(agent_id, "error", PyNone, PyStr(<<exc.message>>), PyNone)

\* an executor that does not merge the agent's context
record_result_unmerged(result, agent_context) ==
  /\ execution_results' = set_result(execution_results, result)
  /\ shared_context' = shared_context
  /\ context' = context
  /\ executed' = Append(executed, result)
  /\ position' = position + 1
  /\ trying' = NoFrame
  /\ pc' = "execute"

\* an executor that merges into the mapping it was given, not into a copy
record_result_in_place(result, agent_context) ==
  /\ execution_results' = set_result(execution_results, result)
  /\ shared_context' = Update(shared_context, agent_context)
  /\ context' = IF Truthy(context)
                  THEN PyDict(Update(shared_context, agent_context))
                ELSE context
  /\ executed' = Append(executed, result)
  /\ position' = position + 1
  /\ trying' = NoFrame
  /\ pc' = "execute"

\* the statements of _execute_plan after agent.execute has returned:
\* execution_results[agent_id] = result; shared_context.update(agent.context),
\* on the copy _execute_plan made of the plan's context: the mapping
\* process_request was given stays as it is
record_result(result, agent_context) ==
  /\ execution_results' = set_result(execution_results, result)
  /\ shared_context' = Update(shared_context, agent_context)
  /\ context' = context
  /\ executed' = Append(executed, result)
  /\ position' = position + 1
  /\ trying' = NoFrame
  /\ pc' = "execute"

\* an agent whose exception leaves execute and the loop of the executor
agent_try_halting(excel_exists, response) ==
  /\ pc = "agent_try"
  /\ LET own_context == agents[running_agent].context
         tried == try_block(running_agent, task_plan.task, shared_context,
                            own_context, excel_exists, response)
     IN  IF tried.outcome = "raise"
           THEN /\ agents' = [agents EXCEPT ![running_agent].status = "error"]
                /\ except_clause(tried.exc)
                /\ written' = written
                /\ executed' = executed
           ELSE /\ agents' = [agents EXCEPT
                                ![running_agent] =
                                  [status |-> "completed",
                                   context |-> Update(own_context, tried.added)]]
                /\ trying' = tried
                /\ pc' = "agent_return"
                /\ written' = Update(written, tried.added)
                /\ executed' = executed
                /\ UNCHANGED <<status, returned, raised, user_request, context,
                               task_plan, execution_results, shared_context,
                               position>>
  /\ UNCHANGED <<current_task, requests, planned_by, clarification>>

\* the try block of execute, to update_status(COMPLETED) or into the except
\* clause
agent_try(excel_exists, response) ==
  /\ pc = "agent_try"
  /\ LET own_context == agents[running_agent].context
         tried == try_block(running_agent, task_plan.task, shared_context,
                            own_context, excel_exists, response)
     IN  IF tried.outcome = "raise"
           THEN /\ agents' = [agents EXCEPT ![running_agent].status = "error"]
                /\ record_result(error_result(running_agent, tried.exc),
                                 own_context)
                /\ written' = written
           ELSE /\ agents' = [agents EXCEPT
                                ![running_agent] =
                                  [status |-> "completed",
                                   context |-> Update(own_context, tried.added)]]
                /\ trying' = tried
                /\ pc' = "agent_return"
                /\ written' = Update(written, tried.added)
                /\ executed' = executed
                /\ UNCHANGED <<execution_results, shared_context, context,
                               position>>
  /\ UNCHANGED <<status, current_task, user_request, task_plan, returned,
                 raised, requests, planned_by, clarification>>

\* the AgentResult execute builds after update_status(COMPLETED); the
\* summarizer's metadata takes len(summary)
completed_result(agent_id, tried) ==
  IF agent_id # "summarizer"
    THEN Returned(AgentResult(agent_id, "completed", tried.data, PyNone,
                              tried.metadata))
  ELSE IF tried.data.type # "str"
    THEN Raised("TypeError", "object of type 'NoneType' has no len()")
  ELSE Returned(AgentResult(agent_id, "completed", tried.data, PyNone,
                            PyDict("summary_length" :> Len(tried.data.chars))))

\* an except clause without update_status(AgentStatus.ERROR)
agent_return_status_kept ==
  /\ pc = "agent_return"
  /\ LET built == completed_result(running_agent, trying)
     IN  IF built.outcome = "raise"
           THEN record_result(error_result(running_agent, built.exc),
                              agents[running_agent].context)
           ELSE record_result(built.value, agents[running_agent].context)
  /\ UNCHANGED <<status, current_task, agents, user_request, task_plan,
                 returned, raised, requests, written, planned_by,
                 clarification>>

\* the end of execute's try block: store_result and the returned AgentResult
agent_return ==
  /\ pc = "agent_return"
  /\ LET built == completed_result(running_agent, trying)
     IN  IF built.outcome = "raise"
           THEN /\ agents' = [agents EXCEPT ![running_agent].status = "error"]
                /\ record_result(error_result(running_agent, built.exc),
                                 agents[running_agent].context)
           ELSE /\ agents' = agents
                /\ record_result(built.value, agents[running_agent].context)
  /\ UNCHANGED <<status, current_task, user_request, task_plan, returned,
                 raised, requests, written, planned_by, clarification>>

\* the loop is over: _aggregate_results, COMPLETED, return final_result
complete ==
  /\ pc = "execute"
  /\ iteration(task_plan.execution_order).outcome = "return"
  /\ position > Len(order)
  /\ status' = "completed"
  /\ returned' = Gave("process_request",
                      aggregate_results(execution_results, task_plan))
  /\ drop_frame
  /\ UNCHANGED <<current_task, agents, raised, requests, written, executed, planned_by,
                 clarification>>

\* handle_clarification without its guard on self.status
handle_clarification_unguarded(answers) ==
  /\ pc = "idle"
  /\ requests < MaxRequests
  /\ enter(current_task, PyDict("clarification_answers" :> PyDict(answers)))
  /\ clarification' = [clarification EXCEPT !.state = "answered",
                                            !.answers = answers]

\* handle_clarification handing the answers over as the context itself
handle_clarification_bare(answers) ==
  /\ pc = "idle"
  /\ IF status # "waiting_for_clarification"
       THEN /\ returned' = Gave("handle_clarification",
                                [error |-> "No clarification needed at this time"])
            /\ UNCHANGED <<status, current_task, agents, pc, frame, raised,
                           requests, written, executed, planned_by, clarification>>
       ELSE /\ requests < MaxRequests
            /\ enter(current_task, PyDict(answers))
            /\ clarification' = [clarification EXCEPT !.state = "answered",
                                                      !.answers = answers]

\* handle_clarification(clarification_answers)
handle_clarification(answers) ==
  /\ pc = "idle"
  /\ IF status # "waiting_for_clarification"
       THEN /\ returned' = Gave("handle_clarification",
                                [error |-> "No clarification needed at this time"])
            /\ UNCHANGED <<status, current_task, agents, pc, frame, raised,
                           requests, written, executed, planned_by, clarification>>
       ELSE /\ requests < MaxRequests
            /\ enter(current_task,
                     PyDict("clarification_answers" :> PyDict(answers)))
            /\ clarification' = [clarification EXCEPT !.state = "answered",
                                                      !.answers = answers]

Next ==
  \/ \E task \in Tasks, context_ \in CallerContexts : process_request(task, context_)
  \/ \E llm \in PlanResponses : planning(llm)
  \/ ask_clarification
  \/ start_execution
  \/ not_iterable
  \/ skip_agent
  \/ enter_agent
  \/ \E excel_exists \in BOOLEAN, response \in SummaryResponses :
       agent_try(excel_exists, response)
  \/ agent_return
  \/ complete
  \/ \E answers \in ClarificationAnswers : handle_clarification(answers)

Spec == Init /\ [][Next]_vars


---------------------------------------------------------------------------
(* The planner alone: process_request has been entered with any task and any
   context of the model, and runs to the end of its dispatch on the plan. *)

PlannerInit ==
  /\ status = "planning"
  /\ user_request \in AllTasks
  /\ current_task = user_request
  /\ context \in AllContexts
  /\ agents = [id \in AgentIds |-> [status |-> "idle", context |-> EmptyDict]]
  /\ pc = "plan"
  /\ task_plan = NoFrame
  /\ execution_results = NoFrame
  /\ shared_context = NoFrame
  /\ position = 0
  /\ trying = NoFrame
  /\ returned = Running("process_request")
  /\ raised = NoException
  /\ requests = 1
  /\ planned_by = "nobody"
  /\ clarification = NoClarification
  /\ written = EmptyDict
  /\ executed = <<>>

PlannerNext ==
  \/ \E llm \in PlanResponses : planning(llm)
  \/ ask_clarification
  \/ start_execution

PlannerSpec == PlannerInit /\ [][PlannerNext]_vars

---------------------------------------------------------------------------
(* The workers alone: _execute_plan has been entered on a new orchestrator
   with a plan of the reasoning service for any task of the model, over a
   row set the caller handed in or none, and runs to the envelope. *)

\* a record of a caller's row set that has a date and a profit only
BareRow(date, profit) == [Date |-> date, Profit |-> profit]

\* the row sets a caller hands over: of the sheet's columns or bare, in one
\* quarter or two, rising, falling, level, starting at 0, on a single date
WorkerRowSets ==
  { <<Row(2, 7, Government, Canada, Paseo)>>,
    <<Row(3, 5, Government, Canada, Paseo), Row(1, 0, Midmarket, France, Paseo)>>,
    <<Row(1, 10, Government, Canada, Paseo), Row(6, 10, Midmarket, France, Paseo)>>,
    <<Row(2, 4, Government, Canada, Paseo), Row(2, 6, Midmarket, France, Paseo)>>,
    <<BareRow(1, 10), BareRow(2, 30)>>,
    <<BareRow(1, 30), BareRow(8, 10)>> }

\* the financial_data of a context: the rows and their number
FinancialData(rows) == PyDict([raw_data |-> rows, data_points |-> Len(rows)])

WorkerContexts ==
  {PyNone} \cup {PyDict("financial_data" :> FinancialData(rows)) :
                   rows \in WorkerRowSets}

WorkerTasks == {t \in AllTasks : t.type = "str"}

\* the execution orders of the plans: every worker, the workers after the
\* fetcher, the summarizer alone
WorkerOrders ==
  {default_order, <<"analyzer", "visualizer", "summarizer">>, <<"summarizer">>}

WorkerInit ==
  /\ status = "executing"
  /\ user_request \in WorkerTasks
  /\ current_task = user_request
  /\ context \in WorkerContexts
  /\ \E o \in WorkerOrders :
       task_plan = TaskPlan(user_request, PyList(o), PyList(o),
                            IF Truthy(context) THEN context.items ELSE EmptyDict,
                            PyBool(FALSE), PyList(<<>>))
  /\ agents = [id \in AgentIds |-> [status |-> "idle", context |-> EmptyDict]]
  /\ pc = "execute"
  /\ execution_results = <<>>
  /\ shared_context = task_plan.context
  /\ position = 1
  /\ trying = NoFrame
  /\ returned = Running("process_request")
  /\ raised = NoException
  /\ requests = 1
  /\ planned_by = "llm"
  /\ clarification = NoClarification
  /\ written = EmptyDict
  /\ executed = <<>>

WorkerNext ==
  \/ enter_agent
  \/ \E excel_exists \in BOOLEAN, response \in AllSummaryResponses :
       agent_try(excel_exists, response)
  \/ agent_return
  \/ complete

WorkerSpec == WorkerInit /\ [][WorkerNext]_vars

---------------------------------------------------------------------------
(* Properties of process_request and handle_clarification *)

\* the last call was process_request and it is over
Answered == pc = "idle" /\ returned.call = "process_request"

\* C1: process_request never lets an exception escape to its caller; when
\* planning, execution or aggregation raised, the status is Error and the
\* call returned {status: error, error: message, task: request}.
NoExceptionEscapes ==
  /\ returned.outcome # "raise"
  /\ (Answered /\ raised # NoException) =>
       /\ status = "error"
       /\ returned = Gave("process_request",
                          [status |-> "error", error |-> raised.message,
                           task |-> current_task])

\* a plan whose execution order is not iterable has ended a call
MalformedPlanAnswered ==
  /\ Answered
  /\ raised.class = "TypeError"
  /\ planned_by = "llm"
  /\ returned.value.status = "error"

EnvelopeStatus ==
  [completed |-> "completed",
   waiting_for_clarification |-> "clarification_needed",
   error |-> "error"]

\* C2: after every return of process_request the envelope status is one of
\* completed, clarification_needed, error and the orchestrator status is the
\* matching one; between calls the status is never Planning or Executing.
EnvelopeMatchesStatus ==
  /\ Answered =>
       /\ returned.outcome = "return"
       /\ "status" \in DOMAIN returned.value
       /\ status \in DOMAIN EnvelopeStatus
       /\ returned.value.status = EnvelopeStatus[status]
  /\ pc = "idle" => status \notin {"planning", "executing"}

\* a call has ended in a clarification request
ClarificationAsked ==
  /\ Answered
  /\ returned.value.status = "clarification_needed"
  /\ status = "waiting_for_clarification"

\* C3: Executing is entered only from Planning, Completed only from
\* Executing, WaitingForClarification only from Planning, Error only in a
\* step where an exception ended the call; once a request has been made the
\* status is never Pending again.
StatusEdges ==
  [][/\ (status' = "executing" /\ status # "executing") => status = "planning"
     /\ (status' = "completed" /\ status # "completed") => status = "executing"
     /\ (status' = "waiting_for_clarification"
           /\ status # "waiting_for_clarification") => status = "planning"
     /\ (status' = "error" /\ status # "error") =>
          /\ status \in {"planning", "executing"}
          /\ raised = NoException
          /\ raised' # NoException
     /\ (status' = "planning" /\ status # "planning") => requests' = requests + 1
     /\ status' = "pending" => (status = "pending" /\ requests' = 0)]_vars

\* a second request is executing, after a first that completed or failed
SecondRequestExecuting ==
  /\ requests = 2
  /\ status = "executing"
  /\ clarification.state = "none"

\* what handle_clarification must leave alone when nothing is pending
OrchestratorState == <<status, current_task, agents, pc, frame, planned_by>>

\* C4: handle_clarification called while the status is not
\* WaitingForClarification returns an error envelope and changes nothing:
\* status, current_task, every agent's status and context stay, and neither
\* the planner nor an agent is started.
MisuseChangesNothing ==
  [][(status # "waiting_for_clarification"
        /\ \E answers \in ClarificationAnswers : handle_clarification(answers))
     => /\ UNCHANGED OrchestratorState
        /\ pc' = "idle"
        /\ returned' = Gave("handle_clarification",
                            [error |-> "No clarification needed at this time"])]_vars

\* handle_clarification has been refused after a completed request that
\* left results in the agents
MisuseAfterCompleted ==
  /\ returned.call = "handle_clarification"
  /\ status = "completed"
  /\ current_task # PyNone
  /\ \E id \in AgentIds : agents[id].context # EmptyDict

\* the context handle_clarification builds from the answers
FreshContext == PyDict("clarification_answers" :> PyDict(clarification.answers))

\* C5: a resumed request runs with the task that asked for clarification and
\* with a context whose only key is clarification_answers, holding the
\* answers; no key of the first request's context goes into the rerun.
ResumeUsesFreshContext ==
  (clarification.state = "answered" /\ pc # "idle") =>
    /\ user_request = clarification.task
    /\ current_task = clarification.task
    /\ context = FreshContext
    /\ DOMAIN context.items = {"clarification_answers"}
    /\ pc \in {"planned", "execute", "agent_try", "agent_return"} =>
         /\ task_plan.task = clarification.task
         /\ task_plan.context = FreshContext.items

\* a request that came with financial_data is planned again after its
\* clarification, without financial_data
ResumedWithoutCallerData ==
  /\ clarification.state = "answered"
  /\ pc = "planned"
  /\ clarification.context = PyDict("financial_data" :> CallerData)
  /\ clarification.answers = answers_for(4)
  /\ "financial_data" \notin DOMAIN task_plan.context

---------------------------------------------------------------------------
(* Properties of the deterministic fallback planner *)

\* the fallback planner has written the plan process_request holds
FallbackPlanned == pc = "planned" /\ planned_by = "fallback"

\* every question the last clarification asked has its answer
AllQuestionsAnswered ==
  /\ clarification.questions.type = "list"
  /\ \A i \in 1..Len(clarification.questions.items) :
       QuestionKeys[i] \in DOMAIN clarification.answers

\* C6: a clarification resumed with answers for all asked questions and
\* planned by the fallback is not asked for clarification again: the plan
\* selects agents.
ResumeDoesNotReask ==
  (FallbackPlanned /\ clarification.state = "answered" /\ AllQuestionsAnswered)
    => /\ ~Truthy(task_plan.clarification_needed)
       /\ task_plan.execution_order.items # <<>>

\* C7: with clarification_answers in the context, whatever its value, the
\* fallback planner does not ask again and selects agents.
AnswersPresentNeverReasks ==
  (FallbackPlanned /\ "clarification_answers" \in DOMAIN task_plan.context)
    => /\ ~Truthy(task_plan.clarification_needed)
       /\ task_plan.execution_order.items # <<>>

\* the vague rule in the words of the specification: a vague phrase in the
\* lower-cased task, or at most 3 words
MatchesVagueRule(chars) ==
  \/ \E i \in DOMAIN vague_phrases : Contains(vague_phrases[i], lower(chars))
  \/ split_len(chars) <= 3

\* the tasks of the model the rule holds for
VagueTasks == {TaskHelpMe, TaskGetData, TaskShowChart, TaskSpaced}

\* C8: a task planned by the fallback with no clarification answers in the
\* context, holding a vague phrase or at most 3 words, gets a plan with
\* clarification_needed true, the 4 fixed questions and no agent, whatever
\* agent keyword it holds; its request ends waiting, with those questions.
VagueTaskAsksFourQuestions ==
  /\ {t.chars : t \in {u \in AllTasks : u.type = "str"
                                         /\ MatchesVagueRule(u.chars)}}
       = VagueTasks
  /\ (FallbackPlanned /\ "clarification_answers" \notin DOMAIN task_plan.context
        /\ MatchesVagueRule(task_plan.task.chars))
       => /\ task_plan.clarification_needed = PyBool(TRUE)
          /\ task_plan.clarification_questions = PyList(fallback_questions)
          /\ Len(task_plan.clarification_questions.items) = 4
          /\ task_plan.agents_needed = PyList(<<>>)
          /\ task_plan.execution_order = PyList(<<>>)
  /\ (Answered /\ planned_by = "fallback" /\ clarification.state = "asked")
       => /\ status = "waiting_for_clarification"
          /\ returned.value = [status |-> "clarification_needed",
                               questions |-> PyList(fallback_questions),
                               task |-> current_task]

\* "get data" holds two fetch keywords and is asked about all the same
KeywordTaskAsked ==
  /\ FallbackPlanned
  /\ task_plan.task = PyStr(TaskGetData)
  /\ "clarification_answers" \notin DOMAIN task_plan.context
  /\ Truthy(task_plan.clarification_needed)

KeywordGroup ==
  [data_fetcher |-> fetch_words, analyzer |-> analyze_words,
   visualizer |-> chart_words, summarizer |-> summary_words]

\* the agents whose keyword group matches the task
Matching(chars) ==
  {a \in AgentIds : \E w \in KeywordGroup[a] : Contains(w, lower(chars))}

\* C9: the execution order the fallback planner selects is the canonical
\* order restricted to the agents whose keyword group matches the task, the
\* whole canonical order when none matches; it is not empty, has no
\* duplicate and names registered agents only.
SelectionFollowsCanonicalOrder ==
  (FallbackPlanned /\ ~Truthy(task_plan.clarification_needed)) =>
    LET selected == task_plan.execution_order.items
        matching == Matching(task_plan.task.chars)
        wanted == IF matching = {} THEN AgentIds ELSE matching
    IN  /\ selected = SelectSeq(default_order, LAMBDA a : a \in wanted)
        /\ task_plan.agents_needed = task_plan.execution_order
        /\ selected # <<>>
        /\ \A i, j \in DOMAIN selected : selected[i] = selected[j] => i = j
        /\ Range(selected) \subseteq DOMAIN agents

\* "budget" holds "get": the fetcher and the summarizer are selected
TwoGroupsSelected ==
  /\ FallbackPlanned
  /\ task_plan.task = PyStr(TaskBudget)
  /\ task_plan.execution_order = PyList(<<"data_fetcher", "summarizer">>)

\* C10: "Analyze profit trends for the last 3 quarters" planned by the
\* fallback has the fetcher and the analyzer in its execution order, not
\* the visualizer nor the summarizer; unless the fetcher failed, both
\* succeed and the envelope is completed with analysis.trend_direction
\* upward, downward or stable.
TrendsRequestFetchesAndAnalyzes ==
  /\ (FallbackPlanned /\ task_plan.task = PyStr(TaskTrends)) =>
       /\ {"data_fetcher", "analyzer"}
            \subseteq Range(task_plan.execution_order.items)
       /\ Range(task_plan.execution_order.items)
            \cap {"visualizer", "summarizer"} = {}
  /\ (Answered /\ planned_by = "fallback" /\ current_task = PyStr(TaskTrends)
        /\ "data_fetcher" \notin Range(returned.value.failed_agents)) =>
       /\ returned.value.status = "completed"
       /\ {"data_fetcher", "analyzer"}
            \subseteq Range(returned.value.successful_agents)
       /\ "trend_direction" \in DOMAIN returned.value.analysis.items
       /\ returned.value.analysis.items.trend_direction
            \in {"upward", "downward", "stable"}

---------------------------------------------------------------------------
(* Properties of the plans of both planners *)

\* C11: every plan the planner returns, written by the reasoning service or
\* by the fallback, has an empty execution_order when clarification_needed
\* is true.
ClarificationPlanHasNoOrder ==
  (pc = "planned" /\ Truthy(task_plan.clarification_needed))
    => task_plan.execution_order = PyList(<<>>)

\* the planning calls that fail: the reasoning service raised, gave no
\* text, or gave text that is no JSON object once the fence is cut
FailedResponses ==
  {r \in PlanResponses :
     \/ r.outcome = "raise"
     \/ r.value.type # "str"
     \/ r.value.document.kind # "object"
     \/ (r.value.fence # "none" /\ ~r.value.closed)}

\* C12: when the call to the reasoning service fails, or its response is
\* absent or no JSON object, _plan_task returns the plan of the fallback
\* planner for the same task and context, and process_request does not end
\* in error for it: only a task the fallback planner itself cannot read ends
\* the call.
PlanningFailureFallsBack ==
  [][\A llm \in FailedResponses :
       planning(llm) =>
         IF user_request.type = "str"
           THEN /\ pc' = "planned"
                /\ planned_by' = "fallback"
                /\ task_plan' =
                     create_fallback_plan(
                       user_request,
                       IF Truthy(context) THEN context.items ELSE EmptyDict).value
                /\ status' = "planning"
                /\ raised' = NoException
                /\ returned' = returned
           ELSE raised'.class = "AttributeError"]_vars

\* the fallback has planned every agent for a task that names them all
FallbackPlannedAll ==
  /\ FallbackPlanned
  /\ task_plan.task = PyStr(TaskAll)
  /\ task_plan.execution_order = PyList(default_order)
  /\ status = "planning"

---------------------------------------------------------------------------
(* Properties of the executor and the aggregator *)

\* the loop of _execute_plan is between two agents, or over
BetweenAgents ==
  pc = "execute" /\ iteration(task_plan.execution_order).outcome = "return"

\* the ids the loop has passed
Passed == {order[i] : i \in 1..(position - 1)}

\* C13: the keys of the executor's results are the ids of execution_order
\* that are in the registry: an unknown id is passed over with no result and
\* no failure, and an agent named in agents_needed only is never run.
ResultsFollowExecutionOrder ==
  BetweenAgents =>
    /\ Range(keys(execution_results)) = Passed \cap DOMAIN agents
    /\ \A a \in Passed \ DOMAIN agents :
         /\ a \notin Range(keys(execution_results))
         /\ raised = NoException
         /\ status = "executing"
    /\ task_plan.agents_needed.type = "list" =>
         \A a \in Range(task_plan.agents_needed.items) \ Range(order) :
           a \notin Range(keys(execution_results))

\* the loop is over a plan with an unknown id between two known ones
UnknownIdPassedOver ==
  /\ BetweenAgents
  /\ position > Len(order)
  /\ "forecaster" \in Range(order)
  /\ Range(keys(execution_results)) = {"data_fetcher", "summarizer"}

\* C14: in every completed envelope successful_agents and failed_agents are
\* disjoint, together they are the keys of the executor's results and of
\* agent_status, and total_agents = successful_agents + failed_agents = the
\* number of results.
EnvelopePartitionsResults ==
  [][complete =>
       LET env == returned'.value
           succeeded == Range(env.successful_agents)
           failed == Range(env.failed_agents)
           result_keys == Range(keys(execution_results))
       IN  /\ env.status = "completed"
           /\ succeeded \cap failed = {}
           /\ succeeded \cup failed = result_keys
           /\ DOMAIN env.agent_status = result_keys
           /\ env.metadata.successful_agents = Cardinality(succeeded)
           /\ env.metadata.failed_agents = Cardinality(failed)
           /\ env.metadata.total_agents
                = env.metadata.successful_agents + env.metadata.failed_agents
           /\ env.metadata.total_agents = Len(execution_results)
           /\ env.metadata.total_agents = Cardinality(result_keys)]_vars

\* an envelope with agents on both sides of the partition
MixedEnvelope ==
  /\ Answered
  /\ returned.value.status = "completed"
  /\ returned.value.successful_agents # <<>>
  /\ returned.value.failed_agents # <<>>
  /\ returned.value.metadata.total_agents = 4

Working == {id \in DOMAIN agents : agents[id].status = "working"}

\* C15: the agents of one plan run one after another, and what an agent
\* added to its context is merged into the shared context before the next
\* agent starts: when an agent is about to run, every entry written by the
\* agents before it in execution_order is in the shared context it is given.
EarlierEntriesShared ==
  /\ BetweenAgents =>
       /\ Working = {}
       /\ \A k \in DOMAIN written :
            k \in DOMAIN shared_context /\ shared_context[k] = written[k]
  /\ pc = "agent_try" =>
       /\ Working = {running_agent}
       /\ \A k \in DOMAIN written :
            k \in DOMAIN shared_context /\ shared_context[k] = written[k]
  /\ pc = "agent_return" => Working = {}

\* the summarizer is about to run after the three agents before it wrote
SummarizerGivenEarlierEntries ==
  /\ pc = "agent_try"
  /\ running_agent = "summarizer"
  /\ position = 4
  /\ {"financial_data", "analysis_results", "visualizations"}
       \subseteq DOMAIN written

\* C16: a failed agent does not halt the plan: the loop goes on to every
\* registered agent after it, the failed agent is in failed_agents, and the
\* envelope and the orchestrator are completed even when every agent failed.
FailureDoesNotHalt ==
  [][/\ pc \in {"agent_try", "agent_return"} =>
          /\ pc' \in {pc, "agent_return", "execute"}
          /\ status' = "executing"
          /\ raised' = NoException
     /\ complete =>
          /\ status' = "completed"
          /\ returned'.value.status = "completed"
          /\ \A i \in DOMAIN order :
               order[i] \in DOMAIN agents
                 => order[i] \in DOMAIN returned'.value.agent_status
          /\ \A i \in DOMAIN execution_results :
               execution_results[i].status = "error"
                 => execution_results[i].agent_id
                      \in Range(returned'.value.failed_agents)]_vars

\* a completed envelope of four agents that all failed
AllFailedEnvelope ==
  /\ Answered
  /\ status = "completed"
  /\ returned.value.status = "completed"
  /\ returned.value.successful_agents = <<>>
  /\ Len(returned.value.failed_agents) = 4

---------------------------------------------------------------------------
(* Properties of the agents and their results *)

InExecutor == pc \in {"execute", "agent_try", "agent_return"}

\* C17: every result the executor holds has error None when its status is
\* completed, and data None and an error when its status is error.
ResultsWellFormed ==
  (InExecutor /\ iteration(task_plan.execution_order).outcome = "return") =>
    \A i \in DOMAIN execution_results :
      LET result == execution_results[i]
      IN  /\ result.status \in {"completed", "error"}
          /\ result.status = "completed" => result.error = PyNone
          /\ result.status = "error" =>
               /\ result.data = PyNone
               /\ result.error # PyNone
               /\ result.error.type = "str"

\* the executor holds a completed result and an error result
BothKindsOfResult ==
  /\ BetweenAgents
  /\ \E i, j \in DOMAIN execution_results :
       /\ execution_results[i].status = "completed"
       /\ execution_results[i].data # PyNone
       /\ execution_results[j].status = "error"

\* C18: an agent's status changes only into Working, or out of Working into
\* Completed or Error: Completed and Error are entered from Working alone.
AgentStatusEdges ==
  [][\A id \in AgentIds :
       agents'[id].status # agents[id].status =>
         \/ agents'[id].status = "working"
         \/ /\ agents[id].status = "working"
            /\ agents'[id].status \in {"completed", "error"}]_vars

\* the result execute has just returned for the agent that ran
Latest(results, id) ==
  results[CHOOSE i \in DOMAIN results : results[i].agent_id = id]

\* C19: execute hands no exception to the executor: when it fails the status
\* of the agent is Error and an Error result comes back, and whenever it
\* returns the status of the agent is the status of the result.
ExecuteReturnsItsStatus ==
  [][(pc \in {"agent_try", "agent_return"} /\ pc' = "execute") =>
       LET result == Latest(execution_results', running_agent)
       IN  /\ result.status \in {"completed", "error"}
           /\ agents'[running_agent].status = result.status
           /\ result.status = "error" => result.error # PyNone
           /\ raised' = NoException
           /\ status' = "executing"]_vars

\* the summarizer failed after the reasoning service gave it no text
SummarizerFailedLate ==
  /\ BetweenAgents
  /\ agents["summarizer"].status = "error"
  /\ "summary" \in DOMAIN written
  /\ \E i \in DOMAIN execution_results :
       /\ execution_results[i].agent_id = "summarizer"
       /\ execution_results[i].status = "error"

\* C20: the shared context an agent is given holds nothing of an earlier
\* request: each of its entries came with the context of this request or
\* was written by an agent in this request.
SharedContextIsOfThisRequest ==
  pc = "agent_try" =>
    \A k \in DOMAIN shared_context :
      \/ k \in DOMAIN written /\ shared_context[k] = written[k]
      \/ /\ k \notin DOMAIN written
         /\ k \in DOMAIN task_plan.context
         /\ shared_context[k] = task_plan.context[k]

---------------------------------------------------------------------------
(* Properties of the envelope's payloads and of the workers' preconditions *)

\* the key of the envelope that carries each worker's payload
EnvelopeField ==
  [summarizer |-> "summary", visualizer |-> "visualizations",
   analyzer |-> "analysis", data_fetcher |-> "financial_data"]

\* what that key holds when there is no payload
EnvelopeDefault ==
  [summarizer |-> PyNone, visualizer |-> PyDict(EmptyDict),
   analyzer |-> PyDict(EmptyDict), data_fetcher |-> PyDict(EmptyDict)]

\* the worker was executed in this request
Ran(id) == \E i \in DOMAIN executed : executed[i].agent_id = id

\* the result of its last execution
LastResult(id) ==
  executed[CHOOSE i \in DOMAIN executed :
             /\ executed[i].agent_id = id
             /\ \A j \in DOMAIN executed : executed[j].agent_id = id => j <= i]

\* C21: in every completed envelope summary, visualizations, analysis and
\* financial_data are the payloads of the summarizer, the visualizer, the
\* analyzer and the fetcher exactly when that worker ran in this request
\* and its result is completed, and the default in every other case.
PayloadsOfCompletedWorkers ==
  [][complete =>
       \A id \in AgentIds :
         returned'.value[EnvelopeField[id]] =
           IF Ran(id) /\ LastResult(id).status = "completed"
             THEN LastResult(id).data
           ELSE EnvelopeDefault[id]]_vars

\* C21, amended: the payload is taken when the worker ran, its result is
\* completed and its payload is not empty; the envelope holds the default
\* when the worker did not run, failed, or completed with an empty payload.
NonEmptyPayloadsOfCompletedWorkers ==
  [][complete =>
       \A id \in AgentIds :
         returned'.value[EnvelopeField[id]] =
           IF /\ Ran(id)
              /\ LastResult(id).status = "completed"
              /\ Truthy(LastResult(id).data)
             THEN LastResult(id).data
           ELSE EnvelopeDefault[id]]_vars

\* the summarizer completed with the empty text, and the envelope has the
\* analysis and no summary
EmptySummaryLeftOut ==
  /\ Answered
  /\ returned.value.status = "completed"
  /\ Ran("summarizer")
  /\ LastResult("summarizer").status = "completed"
  /\ LastResult("summarizer").data = PyStr(<<>>)
  /\ returned.value.summary = PyNone
  /\ Ran("analyzer")
  /\ returned.value.analysis = LastResult("analyzer").data
  /\ returned.value.analysis # PyDict(EmptyDict)

\* the workers that read the fetcher's row set
DataReaders == {"analyzer", "visualizer", "summarizer"}

\* the shared context has no financial_data for the worker that is running
NoFinancialData == ~Truthy(Get(shared_context, "financial_data", PyNone))

\* a result that reports a missing row set
IsPreconditionError(result) ==
  /\ result.agent_id \in DataReaders
  /\ result.status = "error"
  /\ result.error \in
       {PyStr(<<"No financial data available for analysis">>),
        PyStr(<<"No financial data available for visualization">>),
        PyStr(<<"No financial data available for summarization">>)}

\* C22: the analyzer, the visualizer or the summarizer executed with no
\* financial_data in the shared context returns an error result with an
\* error that is not None; no exception leaves execute, the executor goes
\* on, and the process_request that ran the worker returns normally.
MissingDataFailsInResult ==
  /\ [][(/\ pc = "agent_try"
          /\ running_agent \in DataReaders
          /\ NoFinancialData
          /\ \E excel_exists \in BOOLEAN, response \in AllSummaryResponses :
               agent_try(excel_exists, response))
        => /\ pc' = "execute"
           /\ IsPreconditionError(Latest(execution_results', running_agent))
           /\ Latest(execution_results', running_agent).data = PyNone
           /\ Latest(execution_results', running_agent).error # PyNone
           /\ agents'[running_agent].status = "error"
           /\ raised' = NoException
           /\ status' = "executing"
           /\ returned' = returned]_vars
  /\ [](\A i \in DOMAIN executed :
          IsPreconditionError(executed[i]) =>
            /\ returned.outcome # "raise"
            /\ raised = NoException
            /\ Answered => /\ status = "completed"
                           /\ returned.value.status = "completed")

\* a request whose three readers all failed for want of a row set has
\* returned its envelope
ReadersFailedForWantOfData ==
  /\ Answered
  /\ returned.value.status = "completed"
  /\ \A id \in DataReaders :
       /\ Ran(id)
       /\ IsPreconditionError(LastResult(id))
       /\ id \in Range(returned.value.failed_agents)

\* C23: the summarizer fails only when there is no financial data: given
\* financial data its result is completed with a text as data, whatever the
\* reasoning service did.
SummarizerFailsOnlyWithoutData ==
  [][(/\ pc \in {"agent_try", "agent_return"}
      /\ pc' = "execute"
      /\ running_agent = "summarizer")
     => LET result == Latest(execution_results', "summarizer")
        IN  /\ result.status = "error" <=> NoFinancialData
            /\ ~NoFinancialData =>
                 /\ result.status = "completed"
                 /\ result.data.type = "str"]_vars

---------------------------------------------------------------------------
(* Properties of the fetcher and the analyzer *)

\* the filters of the task leave no row of the sheet
MatchesNoRow(task) ==
  apply_filters(ExcelRows, extract_filters(lower(task.chars))) = <<>>

\* C24: when the filters of the task match no row of the sheet, which is
\* not empty and has a Date column, the fetcher completes with
\* data_points = 0 and empty breakdowns; its result is not an error.
NoMatchingRowCompletes ==
  [][(/\ pc = "agent_try"
      /\ running_agent = "data_fetcher"
      /\ MatchesNoRow(task_plan.task)
      /\ \E response \in AllSummaryResponses : agent_try(TRUE, response))
     => /\ pc' = "agent_return"
        /\ agents'["data_fetcher"].status = "completed"
        /\ trying'.data.items.data_points = 0
        /\ trying'.data.items.raw_data = <<>>
        /\ DOMAIN trying'.data.items.summary_stats.segment_breakdown = {}
        /\ DOMAIN trying'.data.items.summary_stats.country_breakdown = {}]_vars

\* the rows the analyzer is given: the raw_data of the shared context's
\* financial_data
GivenRows == shared_context["financial_data"].items.raw_data

\* the analyzer is about to analyse, for a task that asks for quarters, rows
\* with a Date and a Profit that fall in one quarter
QuartersAskedOfOneQuarter ==
  /\ pc = "agent_try"
  /\ running_agent = "analyzer"
  /\ Contains(<<"q","u","a","r","t","e","r">>, lower(task_plan.task.chars))
  /\ ~NoFinancialData
  /\ GivenRows # <<>>
  /\ {"Date", "Profit"} \subseteq columns(GivenRows)
  /\ Quarter(MinDate(GivenRows)) = Quarter(MaxDate(GivenRows))

\* C26: the quarterly analysis of rows with a Date and a Profit that
\* resample to fewer than 2 quarters gives the marker "Insufficient data
\* for quarterly analysis" as quarterly_analysis and does not raise: the
\* analyzer completes.
FewQuartersGiveTheMarker ==
  [][(/\ QuartersAskedOfOneQuarter
      /\ \E excel_exists \in BOOLEAN, response \in AllSummaryResponses :
           agent_try(excel_exists, response))
     => /\ pc' = "agent_return"
        /\ agents'["analyzer"].status = "completed"
        /\ trying'.data.items.quarterly_analysis
             = "Insufficient data for quarterly analysis"]_vars

\* the profit series of the rows: the sum of the profits of each date
ProfitSeries(rows) ==
  [d \in {rows[i].Date : i \in DOMAIN rows} |->
     sum_profit(SelectSeq(rows, LAMBDA r : r.Date = d))]

FirstOf(series) == series[CHOOSE d \in DOMAIN series : \A e \in DOMAIN series : d <= e]

LastOf(series) == series[CHOOSE d \in DOMAIN series : \A e \in DOMAIN series : e <= d]

\* the analyzer has analysed the trend of the rows it was given
TrendAnalysed ==
  /\ pc = "agent_try"
  /\ running_agent = "analyzer"
  /\ pc' = "agent_return"
  /\ Contains(<<"t","r","e","n","d">>, lower(task_plan.task.chars))

\* C30: trend_direction is upward exactly when the last value of the profit
\* series is greater than the first, downward in every other case with at
\* least 2 points, the case of equal ends included, and stable exactly when
\* the series has fewer than 2 points; profit_change_percent is 0 when the
\* first value is 0.
TrendDirectionFollowsEnds ==
  [][TrendAnalysed =>
       LET series == ProfitSeries(GivenRows)
           points == Cardinality(DOMAIN series)
           analysis == trying'.data.items
       IN  /\ analysis.trend_direction \in {"upward", "downward", "stable"}
           /\ analysis.trend_direction = "upward"
                <=> (points >= 2 /\ LastOf(series) > FirstOf(series))
           /\ analysis.trend_direction = "downward"
                <=> (points >= 2 /\ LastOf(series) <= FirstOf(series))
           /\ analysis.trend_direction = "stable" <=> points < 2
           /\ FirstOf(series) = 0 => analysis.profit_change_percent = 0]_vars

\* the analyzer called a series of two points with equal ends downward
LevelSeriesCalledDownward ==
  /\ pc = "agent_return"
  /\ running_agent = "analyzer"
  /\ Cardinality(DOMAIN ProfitSeries(GivenRows)) = 2
  /\ LastOf(ProfitSeries(GivenRows)) = FirstOf(ProfitSeries(GivenRows))
  /\ "trend_direction" \in DOMAIN trying.data.items
  /\ trying.data.items.trend_direction = "downward"
  /\ trying.data.items.profit_change_percent = 0

---------------------------------------------------------------------------
(* Properties of the calls of one orchestrator *)

\* C25: while a request waits for its clarification no other request is
\* accepted: the next call that starts is the handle_clarification that
\* resumes it, and current_task stays the task that asked.
OneRequestAtATime ==
  [][(pc = "idle" /\ status = "waiting_for_clarification")
     => /\ current_task' = current_task
        /\ pc' # "idle" =>
             /\ clarification'.state = "answered"
             /\ clarification'.task = current_task
             /\ user_request' = current_task]_vars

\* C27: a process_request that returns clarification_needed has invoked no
\* worker: from its entry to its return no agent's status or context
\* changes and no execute has returned, also when the plan that asks
\* carries an execution order.
ClarificationTouchesNoWorker ==
  [][(pc' \in {"plan", "planned"} \/ ask_clarification)
     => /\ UNCHANGED agents
        /\ written' = EmptyDict
        /\ executed' = <<>>
        /\ pc' \notin {"execute", "agent_try", "agent_return"}]_vars

\* the reasoning service's plan with clarification_needed, an execution
\* order of the fetcher and no question has ended a call, on an orchestrator
\* whose fetcher holds the data of an earlier request
AskedOverNonEmptyOrder ==
  /\ Answered
  /\ returned.value.status = "clarification_needed"
  /\ planned_by = "llm"
  /\ returned.value.questions = PyList(<<>>)
  /\ executed = <<>>
  /\ agents["data_fetcher"].status = "completed"
  /\ "financial_data" \in DOMAIN agents["data_fetcher"].context

\* C28: process_request does not change the context mapping its caller
\* supplied: from the entry of a call to its last step the mapping is what
\* it was, whatever the workers merged into the shared context.
CallerContextNotMutated ==
  [][(pc # "idle" /\ pc' # "idle") => context' = context]_vars

\* the workers have merged their entries into the shared context of a
\* request whose caller supplied a mapping, and the mapping has its one key
CallerMappingKeptWhileShared ==
  /\ BetweenAgents
  /\ position > Len(order)
  /\ context = PyDict("financial_data" :> CallerData)
  /\ DOMAIN context.items = {"financial_data"}
  /\ {"financial_data", "analysis_results", "visualizations", "summary"}
       \subseteq DOMAIN shared_context
  /\ shared_context["financial_data"] # CallerData

\* the ids of the workers executed in this request, in order
ExecutedIds == [i \in DOMAIN executed |-> executed[i].agent_id]

\* C29: a registered worker is executed once for each occurrence of its id
\* in execution_order; the results hold one entry for it, the result of
\* its last execution, and total_agents counts it once.
RepeatedIdRunsEachTime ==
  /\ BetweenAgents =>
       /\ ExecutedIds = SelectSeq(SubSeq(order, 1, position - 1),
                                  LAMBDA a : a \in DOMAIN agents)
       /\ \A id \in AgentIds :
            Ran(id) =>
              /\ Cardinality({i \in DOMAIN execution_results :
                                execution_results[i].agent_id = id}) = 1
              /\ Latest(execution_results, id) = LastResult(id)
  /\ (Answered /\ returned.value.status = "completed") =>
       /\ returned.value.metadata.total_agents = Cardinality(Range(ExecutedIds))
       /\ \A id \in Range(ExecutedIds) :
            returned.value.agent_status[id] = LastResult(id).status

\* the analyzer was executed twice, failing before the fetcher and
\* completing after it, and the envelope counts two agents
AnalyzerRunTwiceCountedOnce ==
  /\ Answered
  /\ returned.value.status = "completed"
  /\ ExecutedIds = <<"analyzer", "data_fetcher", "analyzer">>
  /\ executed[1].status = "error"
  /\ executed[3].status = "completed"
  /\ returned.value.metadata.total_agents = 2
  /\ returned.value.successful_agents = <<"analyzer", "data_fetcher">>
  /\ returned.value.failed_agents = <<>>

==========================================================================
